---- MODULE Spec2Model ----
(***************************************************************************)
(* Resume-to-job-description matcher (src/app.py).                         *)
(*                                                                         *)
(* Texts are sequences of one-character strings, so that lower(), strip(), *)
(* re.sub(), split(), count() and the `in` substring test are computed     *)
(* character by character as the Python code computes them.                *)
(***************************************************************************)
EXTENDS Integers, Sequences, FiniteSets, TLC

VARIABLES
    pc,               \* position of the script run / of the function under check
    user_skill_input, \* sidebar text input (app.py:171)
    enable_feedback,  \* sidebar checkbox (app.py:173)
    uploaded_file,    \* file uploader value (app.py:175)
    job_desc,         \* job description text area (app.py:176)
    button,           \* "Unlock Full Report" clicked in this run (app.py:217)
    skills_list,      \* parsed skills (app.py:172)
    resume_text,      \* text under analysis (app.py:183)
    score,            \* cosine similarity in thousandths, or None (app.py:187)
    matched_skills,   \* app.py:187
    missing_skills,   \* app.py:187
    scores,           \* the five named scores, or None (app.py:196)
    rendered,         \* sequence of widgets/messages rendered by the run
    raised,           \* exception that left the script run uncaught, or "none"
    ratio,            \* fuzz.partial_ratio outcomes: <<skill, text>> -> 0..100
    threshold,        \* extract_skills threshold (app.py:43)
    result            \* value returned by the function under check

vars == <<pc, user_skill_input, enable_feedback, uploaded_file, job_desc, button,
          skills_list, resume_text, score, matched_skills, missing_skills, scores,
          rendered, raised, ratio, threshold, result>>

-----------------------------------------------------------------------------
(* Characters and Python string primitives                                 *)

UpperLetters ==
    <<"A","B","C","D","E","F","G","H","I","J","K","L","M",
      "N","O","P","Q","R","S","T","U","V","W","X","Y","Z">>

LowerLetters ==
    <<"a","b","c","d","e","f","g","h","i","j","k","l","m",
      "n","o","p","q","r","s","t","u","v","w","x","y","z">>

Digits == {"0","1","2","3","4","5","6","7","8","9"}

IsUpperChar(c) == \E i \in 1..Len(UpperLetters) : UpperLetters[i] = c

IsLowerChar(c) == \E i \in 1..Len(LowerLetters) : LowerLetters[i] = c

\* regex \w : letters, digits and underscore
IsWordChar(c) == IsUpperChar(c) \/ IsLowerChar(c) \/ c \in Digits \/ c = "_"

\* regex \s and str.isspace()
IsSpaceChar(c) == c \in {" ", "\n", "\t", "\r"}

LowerChar(c) ==
    IF IsUpperChar(c)
      THEN LowerLetters[CHOOSE i \in 1..Len(UpperLetters) : UpperLetters[i] = c]
      ELSE c

\* str.lower()
Lower(s) == [i \in 1..Len(s) |-> LowerChar(s[i])]

\* membership in a regex character class: "W" is \W, "s" is \s
InClass(c, cls) == IF cls = "W" THEN ~IsWordChar(c) ELSE IsSpaceChar(c)

MinOf(S) == CHOOSE x \in S : \A y \in S : x <= y

MaxOf(S) == CHOOSE x \in S : \A y \in S : y <= x

\* re.sub(r'<cls>+', ' ', s): every maximal run of class characters becomes one
\* space. The characters kept are those outside the class and the first of each run.
ReSubRuns(s, cls) ==
    LET kept == SelectSeq([i \in 1..Len(s) |-> i],
                          LAMBDA i : \/ ~InClass(s[i], cls)
                                     \/ i = 1
                                     \/ ~InClass(s[i - 1], cls))
    IN [k \in 1..Len(kept) |-> IF InClass(s[kept[k]], cls) THEN " " ELSE s[kept[k]]]

\* the text from its first character that is not whitespace
LStrip(s) ==
    LET solid == {i \in 1..Len(s) : ~IsSpaceChar(s[i])}
    IN IF solid = {} THEN <<>> ELSE SubSeq(s, MinOf(solid), Len(s))

\* the text up to its last character that is not whitespace
RStrip(s) ==
    LET solid == {i \in 1..Len(s) : ~IsSpaceChar(s[i])}
    IN IF solid = {} THEN <<>> ELSE SubSeq(s, 1, MaxOf(solid))

\* str.strip()
Strip(s) == RStrip(LStrip(s))

\* sub in s
Contains(s, sub) ==
    \E i \in 0..(Len(s) - Len(sub)) : SubSeq(s, i + 1, i + Len(sub)) = sub

\* s.count(sub): non-overlapping occurrences, scanning left to right (sub non-empty)
RECURSIVE CountFrom(_, _, _)
CountFrom(s, sub, from) ==
    LET hits == {i \in from..(Len(s) - Len(sub) + 1) :
                    SubSeq(s, i, i + Len(sub) - 1) = sub}
    IN IF hits = {} THEN 0
       ELSE 1 + CountFrom(s, sub, MinOf(hits) + Len(sub))

Count(s, sub) == CountFrom(s, sub, 1)

\* round(num / den) as Python 3 rounds: to nearest, ties to even (den > 0)
Round(num, den) ==
    LET q == num \div den
        r == num % den
    IN IF 2 * r < den THEN q
       ELSE IF 2 * r > den THEN q + 1
       ELSE IF q % 2 = 0 THEN q ELSE q + 1

Min(a, b) == IF a <= b THEN a ELSE b

\* n copies of the text s, concatenated
Rep(s, n) == [i \in 1..(n * Len(s)) |-> s[((i - 1) % Len(s)) + 1]]

\* all texts over alphabet A of length at most n
RECURSIVE TextsUpTo(_, _)
TextsUpTo(A, n) ==
    IF n = 0 THEN {<<>>}
    ELSE LET shorter == TextsUpTo(A, n - 1)
         IN shorter \cup {Append(t, c) : t \in shorter, c \in A}

-----------------------------------------------------------------------------
(* Text Preprocessing (app.py:37-40)                                       *)

preprocess_text_strip_first(text) == ReSubRuns(Strip(Lower(text)), "W")

preprocess_text(text) == Strip(ReSubRuns(Lower(text), "W"))

-----------------------------------------------------------------------------
(* More string primitives                                                  *)

\* the text before the first character that satisfies Stop (all of it if none does)
TakeBefore(s, Stop(_)) ==
    LET stops == {i \in 1..Len(s) : Stop(s[i])}
    IN IF stops = {} THEN s ELSE SubSeq(s, 1, MinOf(stops) - 1)

TakeWord(s) == TakeBefore(s, IsSpaceChar)

\* str.split() with no separator: whitespace-separated tokens, none empty
RECURSIVE SplitWs(_)
SplitWs(s) ==
    LET t == LStrip(s)
        w == TakeWord(t)
    IN IF t = <<>> THEN <<>>
       ELSE <<w>> \o SplitWs(SubSeq(t, Len(w) + 1, Len(t)))

TakeUntil(s, sep) == TakeBefore(s, LAMBDA c : c = sep)

\* str.split(sep) for a one-character separator: empty pieces are kept
RECURSIVE SplitOn(_, _)
SplitOn(s, sep) ==
    LET w == TakeUntil(s, sep)
    IN IF Len(w) = Len(s) THEN <<w>>
       ELSE <<w>> \o SplitOn(SubSeq(s, Len(w) + 2, Len(s)), sep)

IsLineBreak(c) == c \in {"\n", "\r"}

TakeLine(s) == TakeBefore(s, IsLineBreak)

\* str.splitlines(): "\r\n" is one break, no empty last line
RECURSIVE SplitLines(_)
SplitLines(s) ==
    LET l == TakeLine(s)
        n == Len(l)
        brk == IF n + 2 <= Len(s) /\ s[n + 1] = "\r" /\ s[n + 2] = "\n" THEN 2 ELSE 1
    IN IF s = <<>> THEN <<>>
       ELSE IF n = Len(s) THEN <<l>>
       ELSE <<l>> \o SplitLines(SubSeq(s, n + brk + 1, Len(s)))

\* str.isupper(): at least one cased character and no lowercase one
IsUpper(s) ==
    /\ \E i \in 1..Len(s) : IsUpperChar(s[i])
    /\ \A i \in 1..Len(s) : ~IsLowerChar(s[i])

\* number of elements of a sequence that satisfy Test
CountIf(s, Test(_)) == Cardinality({i \in 1..Len(s) : Test(s[i])})

Range(s) == {s[i] : i \in 1..Len(s)}

-----------------------------------------------------------------------------
(* Skills Matching (app.py:43-56)                                          *)

DefaultThreshold == 70

\* fuzz.partial_ratio(a, b): the library's answer for the two strings, as given
\* by the outcome table R of the run
partial_ratio(a, b, R) == R[<<a, b>>]

\* the pairs of strings extract_skills hands to fuzz.partial_ratio
RatioPairs(resume, jd, skills) ==
    {<<Lower(sk), t>> : sk \in Range(skills), t \in {Lower(resume), Lower(jd)}}

RECURSIVE extract_skills_loop(_, _, _, _, _, _, _)
extract_skills_loop(resume, jd, skills, t, R, matched, missing) ==
    IF skills = <<>> THEN <<matched, missing>>
    ELSE LET skill == Head(skills)
             score_resume == partial_ratio(Lower(skill), resume, R)
             score_jd == partial_ratio(Lower(skill), jd, R)
         IN IF score_resume >= t
              THEN extract_skills_loop(resume, jd, Tail(skills), t, R,
                                       Append(matched, skill), missing)
            ELSE IF score_jd >= t /\ score_resume < t
              THEN extract_skills_loop(resume, jd, Tail(skills), t, R,
                                       matched, Append(missing, skill))
            ELSE extract_skills_loop(resume, jd, Tail(skills), t, R, matched, missing)

RECURSIVE extract_skills_loop_no_elif(_, _, _, _, _, _, _)
extract_skills_loop_no_elif(resume, jd, skills, t, R, matched, missing) ==
    IF skills = <<>> THEN <<matched, missing>>
    ELSE LET skill == Head(skills)
             score_resume == partial_ratio(Lower(skill), resume, R)
             score_jd == partial_ratio(Lower(skill), jd, R)
             m1 == IF score_resume >= t THEN Append(matched, skill) ELSE matched
             m2 == IF score_jd >= t THEN Append(missing, skill) ELSE missing
         IN extract_skills_loop_no_elif(resume, jd, Tail(skills), t, R, m1, m2)

extract_skills_no_elif(resume, jd, skills, t, R) ==
    extract_skills_loop_no_elif(Lower(resume), Lower(jd), skills, t, R, <<>>, <<>>)

\* returns <<matched, missing>>
extract_skills(resume, jd, skills, t, R) ==
    extract_skills_loop(Lower(resume), Lower(jd), skills, t, R, <<>>, <<>>)

-----------------------------------------------------------------------------
(* Formatting Checks (app.py:66-75) and Score Helpers (app.py:78-98)       *)

\* the bullet character U+2022 (not a word character, not whitespace, not cased);
\* module text is ASCII, so "*" stands for it
Bullet == <<"*">>

DashSpace == <<"-", " ">>

BulletIssue == [msg |-> "Use more bullet points for better readability.", n |-> 0]

CapsIssue == [msg |-> "Avoid using ALL CAPS excessively.", n |-> 0]

LongLinesIssue(k) == [msg |-> "lines are too long. Try breaking them up.", n |-> k]

check_formatting(text) ==
    LET lines == SplitLines(text)
        long_lines == CountIf(lines, LAMBDA line : Len(line) > 160)
    IN (IF Count(text, Bullet) < 3 /\ Count(text, DashSpace) < 3
          THEN <<BulletIssue>> ELSE <<>>)
       \o (IF \E i \in 1..Len(lines) : IsUpper(lines[i]) /\ Len(lines[i]) > 10
             THEN <<CapsIssue>> ELSE <<>>)
       \o (IF long_lines > 0 THEN <<LongLinesIssue(long_lines)>> ELSE <<>>)

\* the if/elif chain of calculate_style_score on the bullet count
style_of_bullets_gt(bullets) ==
    IF bullets > 10 THEN 100
    ELSE IF bullets > 5 THEN 75
    ELSE IF bullets > 3 THEN 50
    ELSE 25

style_of_bullets(bullets) ==
    IF bullets >= 10 THEN 100
    ELSE IF bullets >= 5 THEN 75
    ELSE IF bullets >= 3 THEN 50
    ELSE 25

calculate_style_score(text) ==
    style_of_bullets(Count(text, Bullet) + Count(text, DashSpace))

ats_keywords(jd) == SelectSeq(SplitWs(Lower(jd)), LAMBDA word : Len(word) > 4)

ats_keywords_ge4(jd) == SelectSeq(SplitWs(Lower(jd)), LAMBDA word : Len(word) >= 4)

calculate_ats_score_ge4(text, jd) ==
    LET keywords == ats_keywords_ge4(jd)
        matches == CountIf(keywords, LAMBDA k : Contains(Lower(text), k))
    IN IF keywords = <<>> THEN Min(100, 0)
       ELSE Min(100, Round(matches * 100, Len(keywords)))

calculate_ats_score(text, jd) ==
    LET keywords == ats_keywords(jd)
        matches == CountIf(keywords, LAMBDA k : Contains(Lower(text), k))
    IN IF keywords = <<>> THEN Min(100, 0)
       ELSE Min(100, Round(matches * 100, Len(keywords)))

sections ==
    << <<"e","d","u","c","a","t","i","o","n">>,
       <<"e","x","p","e","r","i","e","n","c","e">>,
       <<"s","k","i","l","l","s">>,
       <<"p","r","o","j","e","c","t","s">>,
       <<"s","u","m","m","a","r","y">>,
       <<"c","e","r","t","i","f","i","c","a","t","i","o","n","s">> >>

calculate_section_score(text) ==
    LET count == CountIf(sections, LAMBDA sec : Contains(Lower(text), sec))
    IN Round(count * 100, Len(sections))

-----------------------------------------------------------------------------
(* Values shared by the specifications                                     *)

\* Python's None is the empty tuple, a present value x is <<x>>
NoneVal == <<>>

Some(x) == <<x>>

uiVars == <<user_skill_input, enable_feedback, uploaded_file, button, score, scores,
            rendered, raised>>

\* the Streamlit widgets and outputs, untouched while one function is checked alone
NoUI ==
    /\ user_skill_input = <<>>
    /\ enable_feedback = FALSE
    /\ uploaded_file = NoneVal
    /\ button = FALSE
    /\ score = NoneVal
    /\ scores = NoneVal
    /\ rendered = <<>>
    /\ raised = "none"

NoSkills ==
    /\ skills_list = <<>>
    /\ matched_skills = <<>>
    /\ missing_skills = <<>>
    /\ ratio = <<>>
    /\ threshold = DefaultThreshold

skillVars == <<skills_list, matched_skills, missing_skills, ratio, threshold>>

-----------------------------------------------------------------------------
(* SpecPre: preprocess_text applied to every short text                    *)

MaxTextLen == 4

PreAlphabet == {"a", "B", "7", "_", "-", " ", "\n"}

InitPre ==
    /\ pc = "call"
    /\ resume_text \in TextsUpTo(PreAlphabet, MaxTextLen)
    /\ job_desc = <<>>
    /\ result = <<>>
    /\ NoUI /\ NoSkills

Preprocess ==
    /\ pc = "call"
    /\ result' = preprocess_text(resume_text)
    /\ pc' = "preprocessed"
    /\ UNCHANGED <<resume_text, job_desc, uiVars, skillVars>>

NextPre == Preprocess

SpecPre == InitPre /\ [][NextPre]_vars

\* C9: preprocessing is idempotent, and its output has no leading or trailing
\* space and no two adjacent spaces.
C9_PreprocessIdempotent ==
    pc = "preprocessed" =>
        /\ preprocess_text(result) = result
        /\ result # <<>> => result[1] # " " /\ result[Len(result)] # " "
        /\ \A i \in 1..(Len(result) - 1) : ~(result[i] = " " /\ result[i + 1] = " ")

\* a text with an uppercase letter, a leading non-word character and a run of two
\* non-word characters between words has been preprocessed
C9_Witness ==
    /\ pc = "preprocessed"
    /\ Len(resume_text) = 4
    /\ resume_text[1] = "-" /\ resume_text[2] = "B"
    /\ resume_text[3] = "\n" /\ resume_text[4] = " "
    /\ result = <<"b">>

-----------------------------------------------------------------------------
(* SpecFmt: check_formatting and calculate_style_score on bullet texts     *)

MaxBullets == 6

MaxDashes == 6

\* nb bullet items and nd dash items, in two orders
BulletLayout(nb, nd, order) ==
    IF order = "bullets_first"
      THEN Rep(Bullet \o <<"a", " ">>, nb) \o Rep(DashSpace \o <<"b", "\n">>, nd)
      ELSE Rep(<<"-">> \o DashSpace, nd) \o Rep(<<"c">> \o Bullet, nb)

\* what follows the items: nothing, a lone dash, an all-caps line of 11 characters,
\* a line of 161 characters
Decorations ==
    { <<>>, <<"-">>, <<"\n">> \o Rep(<<"A">>, 11), <<"\r", "\n">> \o Rep(<<"x">>, 161) }

BulletTexts ==
    { BulletLayout(nb, nd, order) \o d :
        nb \in 0..MaxBullets, nd \in 0..MaxDashes,
        order \in {"bullets_first", "dashes_first"}, d \in Decorations }

InitFmt ==
    /\ pc = "call"
    /\ resume_text \in BulletTexts
    /\ job_desc = <<>>
    /\ result = <<>>
    /\ NoUI /\ NoSkills

CallStyle ==
    /\ pc = "call"
    /\ result' = calculate_style_score(resume_text)
    /\ pc' = "style"
    /\ UNCHANGED <<resume_text, job_desc, uiVars, skillVars>>

CallFormatting ==
    /\ pc = "call"
    /\ result' = check_formatting(resume_text)
    /\ pc' = "formatting"
    /\ UNCHANGED <<resume_text, job_desc, uiVars, skillVars>>

NextFmt == CallStyle \/ CallFormatting

SpecFmt == InitFmt /\ [][NextFmt]_vars

BulletMarkers(text) == Count(text, Bullet) + Count(text, DashSpace)

\* C6: check_formatting reports the bullet-point issue exactly when the total
\* number of bullet markers (bullets plus "- ") is fewer than 3.
C6_BulletIssueIffTotalBelow3 ==
    pc = "formatting" =>
        (BulletIssue \in Range(result) <=> BulletMarkers(resume_text) < 3)

\* C7: the style score is the step function 100 / 75 / 50 / 25 of the marker count
\* b (b >= 10, 5 <= b < 10, 3 <= b < 5, b < 3), is one of {25, 50, 75, 100}, and is
\* non-decreasing in b.
C7_StyleStepFunction ==
    pc = "style" =>
        LET b == BulletMarkers(resume_text)
        IN /\ b >= 10 => result = 100
           /\ (5 <= b /\ b < 10) => result = 75
           /\ (3 <= b /\ b < 5) => result = 50
           /\ b < 3 => result = 25
           /\ result \in {25, 50, 75, 100}
           /\ \A fewer \in 0..b : style_of_bullets(fewer) <= result

\* a text with 4 bullets and 6 dash markers (10 in all) has been scored 100
C7_Witness ==
    /\ pc = "style"
    /\ Count(resume_text, Bullet) = 4
    /\ Count(resume_text, DashSpace) = 6
    /\ result = 100

-----------------------------------------------------------------------------
(* SpecAts: calculate_ats_score on token-built job descriptions            *)

MaxTokens == 3

AtsVocabulary ==
    { <<"P","y","t","h","o","n">>, <<"j","a","v","a">>,
      <<"s","k","i","l","l">>, <<"A","G","I","L","E">> }

AtsResumes ==
    { <<>>,
      <<"p","y","t","h","o","n"," ","S","k","i","l","l","s">>,
      <<"A","g","i","l","e","\n","j","a","v","a">>,
      <<"s","k","i","l","l","f","u","l","l","y"," ","a","g","i","l","e">> }

RECURSIVE Join(_, _)
Join(toks, sep) ==
    IF toks = <<>> THEN <<>>
    ELSE IF Len(toks) = 1 THEN toks[1]
    ELSE toks[1] \o sep \o Join(Tail(toks), sep)

RECURSIVE SeqsUpTo(_, _)
SeqsUpTo(S, n) ==
    IF n = 0 THEN {<<>>}
    ELSE LET shorter == SeqsUpTo(S, n - 1)
         IN shorter \cup {Append(t, x) : t \in shorter, x \in S}

AtsJobDescs ==
    { Join(toks, sep) : toks \in SeqsUpTo(AtsVocabulary, MaxTokens),
                        sep \in {<<" ">>, <<"\n", " ">>} }

InitAts ==
    /\ pc = "call"
    /\ resume_text \in AtsResumes
    /\ job_desc \in AtsJobDescs
    /\ result = <<>>
    /\ NoUI /\ NoSkills

CallAts ==
    /\ pc = "call"
    /\ result' = calculate_ats_score(resume_text, job_desc)
    /\ pc' = "ats"
    /\ UNCHANGED <<resume_text, job_desc, uiVars, skillVars>>

NextAts == CallAts

SpecAts == InitAts /\ [][NextAts]_vars

-----------------------------------------------------------------------------
(* SpecSkills: extract_skills on every short skill list and outcome table  *)

MaxSkills == 3

SkillNames == { <<"g","o">>, <<"G","o">>, <<"r">> }

\* outcomes of fuzz.partial_ratio around the thresholds
RatioLevels == {0, 69, 70, 100}

Thresholds == {69, DefaultThreshold, 100}

SkillResume == <<"G","o"," ","d","e","v">>

\* the second job description equals the resume once both are lowercased
SkillJobDescs == { <<"R"," ","g","o">>, <<"g","o"," ","D","E","V">> }

InitSkills ==
    /\ pc = "call"
    /\ resume_text = SkillResume
    /\ job_desc \in SkillJobDescs
    /\ skills_list \in SeqsUpTo(SkillNames, MaxSkills)
    /\ threshold \in Thresholds
    /\ ratio \in [RatioPairs(resume_text, job_desc, skills_list) -> RatioLevels]
    /\ matched_skills = <<>>
    /\ missing_skills = <<>>
    /\ result = <<>>
    /\ NoUI

CallExtractSkills ==
    /\ pc = "call"
    /\ LET r == extract_skills(resume_text, job_desc, skills_list, threshold, ratio)
       IN /\ matched_skills' = r[1]
          /\ missing_skills' = r[2]
    /\ pc' = "skills"
    /\ UNCHANGED <<resume_text, job_desc, skills_list, threshold, ratio, result, uiVars>>

NextSkills == CallExtractSkills

SpecSkills == InitSkills /\ [][NextSkills]_vars

ResumeSimilarity(skill) == ratio[<<Lower(skill), Lower(resume_text)>>]

JobSimilarity(skill) == ratio[<<Lower(skill), Lower(job_desc)>>]

\* C1: a skill is matched exactly when its resume-similarity is >= t, missing
\* exactly when its job-similarity is >= t and its resume-similarity is < t, and
\* no skill is in both lists.
C1_SkillClassification ==
    pc = "skills" =>
        /\ \A sk \in Range(skills_list) :
              /\ sk \in Range(matched_skills) <=> ResumeSimilarity(sk) >= threshold
              /\ sk \in Range(missing_skills) <=>
                    (JobSimilarity(sk) >= threshold /\ ResumeSimilarity(sk) < threshold)
        /\ Range(matched_skills) \cup Range(missing_skills) \subseteq Range(skills_list)
        /\ Range(matched_skills) \cap Range(missing_skills) = {}
        /\ Len(matched_skills) + Len(missing_skills) <= Len(skills_list)

\* at the default threshold: "r" matched at exactly 70, "go" missing with 69 on the
\* resume and 70 on the job description
C1_Witness ==
    /\ pc = "skills"
    /\ threshold = DefaultThreshold
    /\ skills_list = << <<"r">>, <<"g","o">>, <<"r">> >>
    /\ ResumeSimilarity(<<"r">>) = 70
    /\ ResumeSimilarity(<<"g","o">>) = 69
    /\ JobSimilarity(<<"g","o">>) = 70
    /\ matched_skills = << <<"r">>, <<"r">> >>
    /\ missing_skills = << <<"g","o">> >>

-----------------------------------------------------------------------------
(* Streamlit UI (app.py:167-250): widgets, outputs and external outcomes   *)

\* one rendered element: the st.* call, its fixed text and the values shown in it
Widget(w, text, v) == [w |-> w, text |-> text, v |-> v]

InfoBegin ==
    Widget("info", "Please upload a resume and paste a job description to begin.", <<>>)

WarnSkills == Widget("warning", "Please enter at least one skill in the sidebar.", <<>>)

ErrReadingPdf == Widget("error", "Error reading PDF", <<>>)

ErrExtract == Widget("error", "Failed to extract text from PDF.", <<>>)

ErrSimilarity == Widget("error", "Could not compute similarity score.", <<>>)

Shown(w) == \E i \in 1..Len(rendered) : rendered[i].w = w

ShownText(text) == \E i \in 1..Len(rendered) : rendered[i].text = text

RECURSIVE Concat(_)
Concat(pages) == IF pages = <<>> THEN <<>> ELSE Head(pages) \o Concat(Tail(pages))

\* PDF Text Extraction (app.py:23-34): the text returned and what the function
\* itself renders. file.ok is FALSE when read(), fitz.open or get_text raises.
extract_text_from_pdf(file) ==
    IF file.ok
      THEN [text |-> Strip(ReSubRuns(Concat(file.pages), "s")), shown |-> <<>>]
      ELSE [text |-> <<>>, shown |-> <<ErrReadingPdf>>]

\* sidebar skills (app.py:172)
parse_skills(input) ==
    LET pieces == SplitOn(input, ",")
        kept == SelectSeq(pieces, LAMBDA piece : Strip(piece) # <<>>)
    IN [i \in 1..Len(kept) |-> Lower(Strip(kept[i]))]

\* the gates of the main flow (app.py:178, 179, 184, 188)
inputs_gate(file, jd) == file # NoneVal /\ jd # <<>>

skills_gate_open(skills) == TRUE

skills_gate(skills) == skills # <<>>

text_gate_open(text) == TRUE

text_gate(text) == text # <<>>

score_gate(sc) == sc # NoneVal

\* what the caller renders after extraction (app.py:184-185)
text_gate_message(text) == IF text_gate(text) THEN <<>> ELSE <<ErrExtract>>

\* app.py:189: round(score * 100), the similarity being in thousandths
overall_score(sim) == Round(sim * 100, 1000)

\* app.py:194
skill_score(matched, skills) ==
    IF skills # <<>> THEN Round(Len(matched) * 100, Len(skills)) ELSE 0

\* app.py:196-202
score_mapping(sim, text, jd, matched, skills) ==
    [skill    |-> skill_score(matched, skills),
     content  |-> overall_score(sim),
     style    |-> calculate_style_score(text),
     ats      |-> calculate_ats_score(text, jd),
     sections |-> calculate_section_score(text)]

\* app.py:204-215: the gauge, then one bar per score in the order of the mapping
render_scores(m) ==
    << Widget("gauge", "Overall Resume Score", <<m.content>>),
       Widget("bar", "Skill Match", <<m.skill>>),
       Widget("bar", "Content", <<m.content>>),
       Widget("bar", "Style", <<m.style>>),
       Widget("bar", "ATS Compatibility", <<m.ats>>),
       Widget("bar", "Sections", <<m.sections>>) >>

\* app.py:218-220
render_report(matched, missing) ==
    << Widget("write", "Detailed Report", <<>>),
       Widget("markdown", "Matched Skills:", matched),
       Widget("markdown", "Missing Skills:", missing) >>

\* app.py:226-238: n grammar issues (at most 10 are listed), the formatting issues
render_feedback(n, formatting_issues) ==
    (IF n > 0
       THEN <<Widget("write", "Grammar Issues Found:", <<>>)>>
            \o [i \in 1..Min(n, 10) |-> Widget("markdown", "grammar issue", <<i>>)]
       ELSE <<Widget("success", "No major grammar issues found!", <<>>)>>)
    \o (IF formatting_issues # <<>>
          THEN <<Widget("write", "Formatting Suggestions:", <<>>)>>
               \o [i \in 1..Len(formatting_issues) |->
                      Widget("markdown", formatting_issues[i].msg, <<formatting_issues[i].n>>)]
          ELSE <<Widget("success", "Formatting looks clean!", <<>>)>>)

Recommendations == Widget("markdown", "Recommendations", <<>>)

UnlockButton == Widget("button", "Unlock Full Report", <<>>)

-----------------------------------------------------------------------------
(* Inputs of the UI runs                                                   *)

SkillInputs ==
    { <<>>,
      <<" ", ",", " ">>,
      <<"G","o">>,
      <<" ","g","o",",",",","R"," ",",","G","O">> }

CorruptPdf == [ok |-> FALSE, pages |-> <<>>]

\* pages without a text layer
ScannedPdf == [ok |-> TRUE, pages |-> << <<>>, <<>> >>]

BlankPdf == [ok |-> TRUE, pages |-> << <<"\n", " ">>, <<"\t">> >>]

\* text, but no word character in it
MarksPdf == [ok |-> TRUE, pages |-> << <<"*", " ", "\n", "-", " ">> >>]

ResumePdf ==
    [ok |-> TRUE,
     pages |-> << <<"S","K","I","L","L","S","\n","*"," ","G","o","\n","-"," ","s","q","l","\n">>,
                  <<"-","\n","E","d","u","c","a","t","i","o","n"," "," ","\n">> >>]

PdfFiles == {CorruptPdf, ScannedPdf, BlankPdf, MarksPdf, ResumePdf}

RealJobDesc ==
    <<"G","o"," ","d","e","v","e","l","o","p","e","r"," ","S","k","i","l","l","s">>

\* empty, without a word character, and a real one
JobDescs == { <<>>, <<"?", " ", "!">>, RealJobDesc }

\* cosine similarities the embedding step can return, in thousandths
SimLevels == {-1000, -250, -4, 0, 125, 667, 1000}

\* number of issues the grammar checker returns
GrammarCounts == {0, 2, 12}

-----------------------------------------------------------------------------
(* Spec: the script run, step by step, and the reruns Streamlit triggers   *)

inputVars == <<user_skill_input, enable_feedback, uploaded_file, job_desc, button>>

Init ==
    /\ pc = "start"
    /\ user_skill_input = <<>>
    /\ enable_feedback = TRUE
    /\ uploaded_file = NoneVal
    /\ job_desc = <<>>
    /\ button = FALSE
    /\ skills_list = <<>>
    /\ resume_text = <<>>
    /\ score = NoneVal
    /\ matched_skills = <<>>
    /\ missing_skills = <<>>
    /\ scores = NoneVal
    /\ rendered = <<>>
    /\ raised = "none"
    /\ ratio = <<>>
    /\ threshold = DefaultThreshold
    /\ result = <<>>

RunOver == pc \in {"done", "aborted"}

\* a rerun starts from the top of the script with nothing of the last run left
FreshRun ==
    /\ pc' = "start"
    /\ skills_list' = <<>>
    /\ resume_text' = <<>>
    /\ score' = NoneVal
    /\ matched_skills' = <<>>
    /\ missing_skills' = <<>>
    /\ scores' = NoneVal
    /\ rendered' = <<>>
    /\ raised' = "none"
    /\ ratio' = <<>>
    /\ UNCHANGED <<threshold, result>>

EditSkills ==
    /\ RunOver
    /\ \E input \in SkillInputs : input # user_skill_input /\ user_skill_input' = input
    /\ button' = FALSE
    /\ FreshRun
    /\ UNCHANGED <<enable_feedback, uploaded_file, job_desc>>

ToggleFeedback ==
    /\ RunOver
    /\ enable_feedback' = ~enable_feedback
    /\ button' = FALSE
    /\ FreshRun
    /\ UNCHANGED <<user_skill_input, uploaded_file, job_desc>>

UploadFile ==
    /\ RunOver
    /\ \E f \in {NoneVal} \cup {Some(x) : x \in PdfFiles} :
          f # uploaded_file /\ uploaded_file' = f
    /\ button' = FALSE
    /\ FreshRun
    /\ UNCHANGED <<user_skill_input, enable_feedback, job_desc>>

EditJobDesc ==
    /\ RunOver
    /\ \E jd \in JobDescs : jd # job_desc /\ job_desc' = jd
    /\ button' = FALSE
    /\ FreshRun
    /\ UNCHANGED <<user_skill_input, enable_feedback, uploaded_file>>

\* the button can be clicked only where the last run rendered it
ClickUnlock ==
    /\ RunOver
    /\ Shown("button")
    /\ button' = TRUE
    /\ FreshRun
    /\ UNCHANGED <<user_skill_input, enable_feedback, uploaded_file, job_desc>>

\* app.py:168-176
RunTop ==
    /\ pc = "start"
    /\ skills_list' = parse_skills(user_skill_input)
    /\ pc' = "gate_inputs"
    /\ UNCHANGED <<inputVars, resume_text, score, matched_skills, missing_skills,
                   scores, rendered, raised, ratio, threshold, result>>

\* app.py:178, 249-250
GateInputs ==
    /\ pc = "gate_inputs"
    /\ IF inputs_gate(uploaded_file, job_desc)
         THEN pc' = "gate_skills" /\ rendered' = rendered
         ELSE pc' = "done" /\ rendered' = Append(rendered, InfoBegin)
    /\ UNCHANGED <<inputVars, skills_list, resume_text, score, matched_skills,
                   missing_skills, scores, raised, ratio, threshold, result>>

\* app.py:179-181
GateSkills ==
    /\ pc = "gate_skills"
    /\ IF skills_gate(skills_list)
         THEN pc' = "extract" /\ rendered' = rendered
         ELSE pc' = "done" /\ rendered' = Append(rendered, WarnSkills)
    /\ UNCHANGED <<inputVars, skills_list, resume_text, score, matched_skills,
                   missing_skills, scores, raised, ratio, threshold, result>>

\* app.py:183
Extract ==
    /\ pc = "extract"
    /\ LET r == extract_text_from_pdf(uploaded_file[1])
       IN /\ resume_text' = r.text
          /\ rendered' = rendered \o r.shown
    /\ pc' = "gate_text"
    /\ UNCHANGED <<inputVars, skills_list, score, matched_skills, missing_skills,
                   scores, raised, ratio, threshold, result>>

\* app.py:184-186
GateText ==
    /\ pc = "gate_text"
    /\ rendered' = rendered \o text_gate_message(resume_text)
    /\ pc' = IF text_gate(resume_text) THEN "compare" ELSE "done"
    /\ UNCHANGED <<inputVars, skills_list, resume_text, score, matched_skills,
                   missing_skills, scores, raised, ratio, threshold, result>>

\* app.py:187, 101-106: a text is empty after preprocessing
CompareEmpty ==
    /\ pc = "compare"
    /\ preprocess_text(resume_text) = <<>> \/ preprocess_text(job_desc) = <<>>
    /\ score' = NoneVal
    /\ matched_skills' = <<>>
    /\ missing_skills' = <<>>
    /\ pc' = "gate_score"
    /\ UNCHANGED <<inputVars, skills_list, resume_text, scores, rendered, raised,
                   ratio, threshold, result>>

\* app.py:108-110: model.encode or util.cos_sim raises; nothing catches it
CompareRaises ==
    /\ pc = "compare"
    /\ preprocess_text(resume_text) # <<>> /\ preprocess_text(job_desc) # <<>>
    /\ raised' = "encode"
    /\ pc' = "aborted"
    /\ UNCHANGED <<inputVars, skills_list, resume_text, score, matched_skills,
                   missing_skills, scores, rendered, ratio, threshold, result>>

\* app.py:108-113
Compare ==
    /\ pc = "compare"
    /\ preprocess_text(resume_text) # <<>> /\ preprocess_text(job_desc) # <<>>
    /\ \E similarity \in SimLevels :
       \E R \in [RatioPairs(resume_text, job_desc, skills_list) -> RatioLevels] :
          LET r == extract_skills(resume_text, job_desc, skills_list, threshold, R)
          IN /\ score' = Some(similarity)
             /\ ratio' = R
             /\ matched_skills' = r[1]
             /\ missing_skills' = r[2]
    /\ pc' = "gate_score"
    /\ UNCHANGED <<inputVars, skills_list, resume_text, scores, rendered, raised,
                   threshold, result>>

\* app.py:188, 247-248
GateScore ==
    /\ pc = "gate_score"
    /\ IF score_gate(score)
         THEN pc' = "compute" /\ rendered' = rendered
         ELSE pc' = "done" /\ rendered' = Append(rendered, ErrSimilarity)
    /\ UNCHANGED <<inputVars, skills_list, resume_text, score, matched_skills,
                   missing_skills, scores, raised, ratio, threshold, result>>

\* app.py:189-202
ComputeScores ==
    /\ pc = "compute"
    /\ scores' = Some(score_mapping(score[1], resume_text, job_desc,
                                    matched_skills, skills_list))
    /\ pc' = "render_scores"
    /\ UNCHANGED <<inputVars, skills_list, resume_text, score, matched_skills,
                   missing_skills, rendered, raised, ratio, threshold, result>>

\* app.py:204-215
RenderScores ==
    /\ pc = "render_scores"
    /\ rendered' = rendered \o render_scores(scores[1])
    /\ pc' = "button"
    /\ UNCHANGED <<inputVars, skills_list, resume_text, score, matched_skills,
                   missing_skills, scores, raised, ratio, threshold, result>>

\* app.py:217
Button ==
    /\ pc = "button"
    /\ rendered' = Append(rendered, UnlockButton)
    /\ pc' = IF button THEN "report" ELSE "done"
    /\ UNCHANGED <<inputVars, skills_list, resume_text, score, matched_skills,
                   missing_skills, scores, raised, ratio, threshold, result>>

\* app.py:218-222
Report ==
    /\ pc = "report"
    /\ rendered' = rendered \o render_report(matched_skills, missing_skills)
    /\ pc' = IF enable_feedback THEN "feedback" ELSE "recommend"
    /\ UNCHANGED <<inputVars, skills_list, resume_text, score, matched_skills,
                   missing_skills, scores, raised, ratio, threshold, result>>

\* app.py:223, 59-63: LanguageTool cannot start or check() raises; nothing catches it
FeedbackRaises ==
    /\ pc = "feedback"
    /\ raised' = "grammar"
    /\ pc' = "aborted"
    /\ UNCHANGED <<inputVars, skills_list, resume_text, score, matched_skills,
                   missing_skills, scores, rendered, ratio, threshold, result>>

\* app.py:223-238
Feedback ==
    /\ pc = "feedback"
    /\ \E n \in GrammarCounts :
          rendered' = rendered \o render_feedback(n, check_formatting(resume_text))
    /\ pc' = "recommend"
    /\ UNCHANGED <<inputVars, skills_list, resume_text, score, matched_skills,
                   missing_skills, scores, raised, ratio, threshold, result>>

\* app.py:240-246
Recommend ==
    /\ pc = "recommend"
    /\ rendered' = Append(rendered, Recommendations)
    /\ pc' = "done"
    /\ UNCHANGED <<inputVars, skills_list, resume_text, score, matched_skills,
                   missing_skills, scores, raised, ratio, threshold, result>>

Next ==
    \/ EditSkills \/ ToggleFeedback \/ UploadFile \/ EditJobDesc \/ ClickUnlock
    \/ RunTop \/ GateInputs \/ GateSkills \/ Extract \/ GateText
    \/ CompareEmpty \/ CompareRaises \/ Compare \/ GateScore
    \/ ComputeScores \/ RenderScores \/ Button \/ Report
    \/ FeedbackRaises \/ Feedback \/ Recommend

Spec == Init /\ [][Next]_vars

-----------------------------------------------------------------------------
(* Claims about the UI runs                                                *)

\* C2: whenever the score mapping exists, each of the five scores is an integer
\* in [0, 100].
C2_ScoresInRange ==
    scores # NoneVal =>
        /\ scores[1].skill \in 0..100
        /\ scores[1].content \in 0..100
        /\ scores[1].style \in 0..100
        /\ scores[1].ats \in 0..100
        /\ scores[1].sections \in 0..100

\* what reaches the caller, and what the caller reports, for a PDF that parses
\* and has no text
EmptyTextOutcome ==
    LET text == extract_text_from_pdf(ScannedPdf).text
    IN <<text, text_gate_message(text)>>

\* C3: the caller tells a parse failure from a PDF without text: after a parse
\* failure, the value it received and the message it reports are not those of a
\* PDF that parsed and yielded no text.
C3_CallerDistinguishesParseFailure ==
    (pc = "done" /\ uploaded_file = Some(CorruptPdf) /\ ShownText("Error reading PDF"))
        => <<resume_text, <<rendered[Len(rendered)]>> >> # EmptyTextOutcome

\* C4: no error raised in a pipeline step leaves the step uncaught and aborts
\* the script run.
C4_NoErrorAbortsRun == raised = "none" /\ pc # "aborted"

\* C5 as stated: with a resume and a job description supplied and an empty skill
\* list, the finished run has a skill-match score of 0 and raised nothing.
C5_EmptySkillsScoreZero ==
    (pc = "done" /\ uploaded_file # NoneVal /\ job_desc # <<>> /\ skills_list = <<>>)
        => /\ raised = "none"
           /\ scores # NoneVal
           /\ scores[1].skill = 0

\* C5 as amended: with a resume and a job description supplied and an empty skill
\* list, the run ends at the skills gate with the warning as its only output, no
\* score mapping and no exception; the skill-match expression of app.py:194, which
\* the run does not reach, is 0 for that list.
C5_EmptySkillsWarned ==
    (/\ pc \notin {"start", "gate_inputs", "gate_skills"}
     /\ uploaded_file # NoneVal /\ job_desc # <<>> /\ skills_list = <<>>)
        => /\ pc = "done"
           /\ raised = "none"
           /\ scores = NoneVal
           /\ rendered = <<WarnSkills>>
           /\ skill_score(matched_skills, skills_list) = 0

\* a run with a readable resume, a job description and a skill input of blanks
\* and a comma has ended
C5_Witness ==
    /\ pc = "done"
    /\ uploaded_file = Some(ResumePdf)
    /\ job_desc = RealJobDesc
    /\ user_skill_input = <<" ", ",", " ">>
    /\ skills_list = <<>>
    /\ Len(rendered) = 1

GatesPassed ==
    /\ uploaded_file # NoneVal /\ job_desc # <<>>
    /\ skills_list # <<>>
    /\ resume_text # <<>>
    /\ score # NoneVal

ScoreOutput == Shown("gauge") \/ Shown("bar") \/ scores # NoneVal

SkillOutput == ShownText("Matched Skills:") \/ ShownText("Missing Skills:")

MatchingDone == ratio # <<>> \/ matched_skills # <<>> \/ missing_skills # <<>>

FeedbackTexts ==
    {"Grammar Issues Found:", "grammar issue", "No major grammar issues found!",
     "Formatting Suggestions:", "Formatting looks clean!"}

FeedbackInvoked ==
    raised = "grammar" \/ \E i \in 1..Len(rendered) : rendered[i].text \in FeedbackTexts

\* C10: skill matching and score rendering happen only after all four gates
\* passed; a run that fails a gate ends with that gate's message and renders no
\* score or skill output; grammar and formatting checks are invoked only after
\* the scores and the unlock button were rendered, in a run where the button was
\* clicked.
C10_GatesBeforeScores ==
    /\ (ScoreOutput \/ SkillOutput \/ MatchingDone) => GatesPassed
    /\ SkillOutput => Shown("gauge") /\ Shown("button") /\ button
    /\ FeedbackInvoked => Shown("gauge") /\ Shown("bar") /\ Shown("button") /\ button
    /\ \A i \in 1..Len(rendered) :
          rendered[i].text \in FeedbackTexts =>
              /\ \E j \in 1..(i - 1) : rendered[j].w = "gauge"
              /\ \E j \in 1..(i - 1) : rendered[j].w = "button"
    /\ (pc = "done" /\ ~GatesPassed) =>
          /\ ~ScoreOutput /\ ~SkillOutput /\ ~FeedbackInvoked
          /\ IF uploaded_file = NoneVal \/ job_desc = <<>>
               THEN rendered = <<InfoBegin>>
             ELSE IF skills_list = <<>>
               THEN rendered = <<WarnSkills>>
             ELSE IF resume_text = <<>>
               THEN rendered # <<>> /\ rendered[Len(rendered)] = ErrExtract
             ELSE rendered = <<ErrSimilarity>>

\* the button was clicked and the full report with twelve grammar issues, ten of
\* them listed, was rendered after the scores
C10_Witness ==
    /\ pc = "done"
    /\ button
    /\ GatesPassed
    /\ Shown("gauge")
    /\ ShownText("Matched Skills:")
    /\ Cardinality({i \in 1..Len(rendered) : rendered[i].text = "grammar issue"}) = 10
    /\ ShownText("Recommendations")

====
